---- MODULE Spec2Model ----
(***************************************************************************)
(* Oliv, a Dubai real-estate assistant: the conversation context and the   *)
(* intent dispatcher of main.py (handle_user_query), with the collaborators*)
(* it calls: the price table (get_price_range), the predictor              *)
(* (predict_price) and the listing/commentary provider                     *)
(* (perplexity_search.py).  The command-line loop of chat.py is a second   *)
(* program and has its own specification, SpecChat.                        *)
(*                                                                         *)
(* Python's None is None (strings) or NoneNum (numbers); a key that the    *)
(* interpreter's JSON object does not carry is Absent / AbsentNum.         *)
(* A text is a sequence of tokens: one token per sentence of a reply,      *)
(* "NL" for a newline and "SP" for a blank.                                *)
(***************************************************************************)
EXTENDS Integers, Sequences, FiniteSets, TLC

\* ---- bounds of the model ------------------------------------------------
MaxBedrooms == 1
MaxBudget == 2
MaxEstimate == 2
MaxListings == 1
MaxMessages == 5

\* ---- values -------------------------------------------------------------
None == "None"
NoneNum == -1
Absent == "absent"
AbsentNum == -2

Locations == {"Marina"}
ExtractedTypes == {"villa"}
Bedrooms == 0..MaxBedrooms
Budgets == 0..MaxBudget
Estimates == 1..MaxEstimate
Intents == {None, "price_check", "search_listings", "market_trend", "schedule_viewing"}

\* Python truthiness of an optional string / an optional number
TruthyStr(s) == s /= None /\ s /= ""
TruthyNum(n) == n /= NoneNum /\ n /= 0

\* ---- texts --------------------------------------------------------------
IsSpace(t) == t \in {"NL", "SP"}

RECURSIVE LStrip(_)
LStrip(s) == IF s /= <<>> /\ IsSpace(Head(s)) THEN LStrip(Tail(s)) ELSE s

RECURSIVE RStrip(_)
RStrip(s) == IF s /= <<>> /\ IsSpace(s[Len(s)]) THEN RStrip(SubSeq(s, 1, Len(s) - 1)) ELSE s

\* str.strip()
Strip(s) == RStrip(LStrip(s))

RECURSIVE Repeat(_, _)
Repeat(s, n) == IF n = 0 THEN <<>> ELSE s \o Repeat(s, n - 1)

\* ---- listing/commentary provider (perplexity_search.py) -----------------
\* What the answer service sends back as message content: text that is or is
\* not JSON, possibly wrapped in ```json fences.  kind is "invalid" (not
\* JSON), "other" (JSON, but not an array) or "array"; elems are the array's
\* elements, "obj" a JSON object and "str" any other JSON value.
Elems == {"obj", "str"}

RECURSIVE SeqsUpTo(_, _)
SeqsUpTo(S, n) ==
    IF n = 0 THEN {<<>>}
    ELSE LET shorter == SeqsUpTo(S, n - 1)
         IN shorter \cup {Append(q, e) : q \in {r \in shorter : Len(r) = n - 1}, e \in S}

Content(fenced, kind, elems) == [fenced |-> fenced, kind |-> kind, elems |-> elems]

EmptyArray == Content(FALSE, "array", <<>>)

Contents ==
    {Content(FALSE, "invalid", <<>>), Content(FALSE, "other", <<>>)}
    \cup {Content(FALSE, "array", es) : es \in SeqsUpTo(Elems, MaxListings)}

\* One request to the answer service: it fails (credential not set, status
\* other than 200, timeout or any exception) or it delivers a content.
ProviderOutcomes ==
    {[status |-> "failed", content |-> EmptyArray]}
    \cup {[status |-> "ok", content |-> c] : c \in Contents}

NotCalled == [status |-> "not_called", content |-> EmptyArray]

call_perplexity(outcome) ==
    IF outcome.status = "ok" THEN outcome.content ELSE EmptyArray

clean_json_content(content) == [content EXCEPT !.fenced = FALSE]

\* json.loads: "JSONDecodeError", or the kind of the value parsed
json_loads(content) ==
    IF content.fenced \/ content.kind = "invalid" THEN "JSONDecodeError" ELSE content.kind

\* parse_listings handing the content to json.loads as it came
ParseListingsUncleaned(content) ==
    IF json_loads(content) = "array" THEN content.elems ELSE <<>>

parse_listings(content) ==
    LET cleaned_content == clean_json_content(content)
    IN IF json_loads(cleaned_content) = "array" THEN cleaned_content.elems ELSE <<>>

find_listings(outcome) == parse_listings(call_perplexity(outcome))

\* l.get(...) raises AttributeError on an element that is not an object
GetRaises(elems) == \E i \in 1..Len(elems) : elems[i] /= "obj"

Returned(text) == [raised |-> FALSE, text |-> text]
Raised == [raised |-> TRUE, text |-> <<>>]

find_general_commentary(outcome) ==
    LET cleaned_content == clean_json_content(call_perplexity(outcome))
        results == cleaned_content.elems
    IN CASE json_loads(cleaned_content) = "JSONDecodeError" ->
                Returned(<<"NL", "couldnt_parse">>)
         [] json_loads(cleaned_content) = "array" /\ Len(results) > 0 ->
                IF GetRaises(results) THEN Raised
                ELSE Returned(<<"NL", "from_my_lookup", "NL">>
                              \o Repeat(<<"NL", "option", "NL">>, Len(results)))
         [] OTHER -> Returned(<<"NL", "couldnt_locate">>)

\* get_perplexity_commentary asking for listings a second time before it
\* falls back to the commentary query
CommentaryWithRetry(location, property_type, r1, r2) ==
    IF TruthyStr(location) /\ TruthyStr(property_type)
    THEN IF find_listings(r1) /= <<>>
         THEN IF GetRaises(find_listings(r1))
              THEN [raised |-> TRUE, text |-> <<>>, calls |-> <<"find_listings">>]
              ELSE [raised |-> FALSE,
                    text |-> <<"NL", "NL", "picked_options", "NL">>
                             \o Repeat(<<"NL", "option", "NL">>, Len(find_listings(r1))),
                    calls |-> <<"find_listings">>]
         ELSE IF find_general_commentary(r2).raised
              THEN [raised |-> TRUE, text |-> <<>>,
                    calls |-> <<"find_listings", "find_listings", "find_general_commentary">>]
              ELSE [raised |-> FALSE, text |-> <<"NL", "NL">> \o find_general_commentary(r2).text,
                    calls |-> <<"find_listings", "find_listings", "find_general_commentary">>]
    ELSE [raised |-> FALSE, text |-> <<>>, calls |-> <<>>]

\* ---- main.py: get_perplexity_commentary ---------------------------------
\* calls: the provider queries made, in order
Commentary(raised, text, calls) == [raised |-> raised, text |-> text, calls |-> calls]

get_perplexity_commentary(location, property_type, r1, r2) ==
    IF TruthyStr(location) /\ TruthyStr(property_type)
    THEN LET listings == find_listings(r1)
         IN IF listings /= <<>>
            THEN IF GetRaises(listings)
                 THEN Commentary(TRUE, <<>>, <<"find_listings">>)
                 ELSE Commentary(FALSE,
                                 <<"NL", "NL", "picked_options", "NL">>
                                 \o Repeat(<<"NL", "option", "NL">>, Len(listings)),
                                 <<"find_listings">>)
            ELSE LET commentary == find_general_commentary(r2)
                     calls == <<"find_listings", "find_general_commentary">>
                 IN IF commentary.raised THEN Commentary(TRUE, <<>>, calls)
                    ELSE IF Strip(commentary.text) /= <<>>
                         THEN Commentary(FALSE, <<"NL", "NL">> \o commentary.text, calls)
                         ELSE Commentary(FALSE, <<>>, calls)
    ELSE Commentary(FALSE, <<>>, <<>>)


\* ---- state --------------------------------------------------------------
VARIABLES
    user_context,   \* main.py: the process-wide context dictionary
    price_stats,    \* main.py: the price table read at start-up (a sequence of rows)
    model,          \* predict.py: "loaded", or None when a pickle file was missing
    pc,             \* "idle", or "replied" while POST /chat holds the reply of a turn
    turn,           \* the turn being answered: its interpretation, the calls made, the reply
    messages,       \* chat.py: number of entries of the message history
    chat,           \* chat.py: the turn of the command-line loop just handled
    call,           \* one call of a function taken alone: its arguments and its result
    req             \* main.py: the locals of the requests being handled concurrently

vars == <<user_context, price_stats, model, pc, turn, messages, chat, call, req>>

\* ---- main.py: price table -----------------------------------------------
Row(area, prop_type, rooms, lo, hi, med) ==
    [AREA_EN |-> area, PROP_TYPE_EN |-> prop_type, ROOMS_EN |-> rooms,
     MIN_PRICE |-> lo, MAX_PRICE |-> hi, MEDIAN_PRICE |-> med]

\* a table of start-up; the last row repeats a key, and the first row of a key is the one used
SampleTable ==
    << Row("Marina", "apartment", "Studio", 1, 2, 1),
       Row("Marina", "villa", "1 B/R", 1, 2, 2),
       Row("JVC", "apartment", "1 B/R", 1, 1, 1),
       Row("Marina", "villa", "1 B/R", 2, 2, 2) >>

NoStats == [found |-> FALSE, min_price |-> 0, max_price |-> 0, median_price |-> 0]

\* the label without the test for 0 of line 35
BedroomsLabelNoStudioForZero(bedrooms) ==
    IF bedrooms = NoneNum THEN "Studio" ELSE ToString(bedrooms) \o " B/R"

bedrooms_label(bedrooms) ==
    IF bedrooms = NoneNum THEN "Studio"
    ELSE IF bedrooms /= 0 THEN ToString(bedrooms) \o " B/R" ELSE "Studio"

RECURSIVE FirstMatch(_, _, _, _)
FirstMatch(table, area, prop_type, label) ==
    IF table = <<>> THEN NoStats
    ELSE LET row == Head(table)
         IN IF row.AREA_EN = area /\ row.PROP_TYPE_EN = prop_type /\ row.ROOMS_EN = label
            THEN [found |-> TRUE, min_price |-> row.MIN_PRICE,
                  max_price |-> row.MAX_PRICE, median_price |-> row.MEDIAN_PRICE]
            ELSE FirstMatch(Tail(table), area, prop_type, label)

get_price_range(table, area, prop_type, bedrooms) ==
    IF table = <<>> THEN NoStats
    ELSE FirstMatch(table, area, prop_type, bedrooms_label(bedrooms))

\* ---- predict.py ---------------------------------------------------------
\* One call of model.predict: it raises, or it yields an estimate.
PredictOutcomes == {[raises |-> TRUE, value |-> 0]} \cup {[raises |-> FALSE, value |-> e] : e \in Estimates}

PredictNotCalled == [raises |-> FALSE, value |-> 0]

predict_price(mdl, outcome) ==
    IF mdl = None THEN NoneNum
    ELSE IF outcome.raises THEN NoneNum ELSE outcome.value

\* ---- nlu_integration.py: what interpret_user_query hands to its caller ---
\* The JSON object of the extraction carries every key, null where nothing was
\* extracted (as the sentinel of lines 17-24 and 53-60 does), or it leaves the
\* keys of the fields it has no value for out.
FullQueries ==
    [intent : Intents,
     location : {None} \cup Locations,
     property_type : {None} \cup ExtractedTypes,
     bedrooms : {NoneNum} \cup Bedrooms,
     budget : {NoneNum} \cup Budgets]

OmitNulls(p) ==
    [intent |-> p.intent,
     location |-> IF p.location = None THEN Absent ELSE p.location,
     property_type |-> IF p.property_type = None THEN Absent ELSE p.property_type,
     bedrooms |-> IF p.bedrooms = NoneNum THEN AbsentNum ELSE p.bedrooms,
     budget |-> IF p.budget = NoneNum THEN AbsentNum ELSE p.budget]

ParsedQueries == FullQueries \cup {OmitNulls(p) : p \in FullQueries}

\* dict.get(key, default)
GetStr(v, default) == IF v = Absent THEN default ELSE v
GetNum(v, default) == IF v = AbsentNum THEN default ELSE v

\* ---- main.py: handle_user_query -----------------------------------------
EmptyContext == [location |-> None, property_type |-> None, bedrooms |-> NoneNum, budget |-> NoneNum]

\* MergeContext with the guards of lines 113-120 left out: the turn's values
\* are written whether or not they are None
MergeContextOverwrite(ctx, parsed) ==
    [location |-> GetStr(parsed.location, ctx.location),
     property_type |-> GetStr(parsed.property_type, ctx.property_type),
     bedrooms |-> GetNum(parsed.bedrooms, ctx.bedrooms),
     budget |-> GetNum(parsed.budget, ctx.budget)]

\* lines 100-120: the interpretation is merged into the context
MergeContext(ctx, parsed) ==
    LET location == GetStr(parsed.location, ctx.location)
        property_type == GetStr(parsed.property_type, ctx.property_type)
        bedrooms == GetNum(parsed.bedrooms, ctx.bedrooms)
        budget == GetNum(parsed.budget, ctx.budget)
    IN [location |-> IF location /= None THEN location ELSE ctx.location,
        property_type |-> IF property_type /= None THEN property_type ELSE ctx.property_type,
        bedrooms |-> IF bedrooms /= NoneNum THEN bedrooms ELSE ctx.bedrooms,
        budget |-> IF budget /= NoneNum THEN budget ELSE ctx.budget]

\* DefaultPropertyType without the bedrooms condition of line 123
DefaultPropertyTypeWithoutBedrooms(ctx) ==
    IF ctx.property_type = None /\ TruthyStr(ctx.location)
    THEN [ctx EXCEPT !.property_type = "apartment"]
    ELSE ctx

\* lines 122-125: property type assumed when location and bedrooms are known
DefaultPropertyType(ctx) ==
    IF ctx.property_type = None /\ TruthyStr(ctx.location) /\ ctx.bedrooms /= NoneNum
    THEN [ctx EXCEPT !.property_type = "apartment"]
    ELSE ctx

ResolveContext(ctx, parsed) == DefaultPropertyType(MergeContext(ctx, parsed))

\* What a turn comes to: the text returned, or an exception raised out of the
\* handler; calls lists the collaborators invoked, in order.
Reply(text, calls) == [raised |-> FALSE, reply |-> text, calls |-> calls]
Crash(calls) == [raised |-> TRUE, reply |-> <<>>, calls |-> calls]

Hint(stats) == IF stats.found THEN <<"SP", "historical_range">> ELSE <<>>

\* lines 146-187
PriceCheck(ctx, table, mdl, po, r1, r2) ==
    LET predicted == predict_price(mdl, po)
        stats == get_price_range(table, ctx.location, ctx.property_type, ctx.bedrooms)
        reply == IF predicted /= NoneNum
                 THEN (IF TruthyNum(ctx.budget)
                       THEN IF ctx.budget > predicted
                            THEN <<"typical_average", "budget_above">>
                            ELSE <<"usually_hovers", "budget_fits">>
                       ELSE <<"typically_around", "ask_purpose">>)
                      \o Hint(stats)
                 ELSE <<"sorry_no_data", "ask_plans">>
        calls == IF predicted /= NoneNum THEN <<"predict_price", "get_price_range">>
                 ELSE <<"predict_price">>
        c == get_perplexity_commentary(ctx.location, ctx.property_type, r1, r2)
    IN IF c.raised THEN Crash(calls \o c.calls)
       ELSE Reply(Strip(reply \o c.text), calls \o c.calls)

\* SearchListings without the budget question of lines 197-202
SearchListingsNoBudgetQuestion(ctx, table, r1, r2) ==
    IF ~TruthyStr(ctx.location) \/ ~TruthyStr(ctx.property_type)
    THEN [raised |-> FALSE, calls |-> <<>>,
          reply |-> <<"love_to_help", "ask_property_type", "ask_area", "ask_purpose">>]
    ELSE IF get_perplexity_commentary(ctx.location, ctx.property_type, r1, r2).raised
    THEN [raised |-> TRUE, reply |-> <<>>,
          calls |-> get_perplexity_commentary(ctx.location, ctx.property_type, r1, r2).calls]
    ELSE [raised |-> FALSE,
          reply |-> Strip(<<"lets_see_available">>
                          \o get_perplexity_commentary(ctx.location, ctx.property_type, r1, r2).text),
          calls |-> get_perplexity_commentary(ctx.location, ctx.property_type, r1, r2).calls]

\* lines 190-227
SearchListings(ctx, table, r1, r2) ==
    IF ~TruthyStr(ctx.location) \/ ~TruthyStr(ctx.property_type)
    THEN Reply(<<"love_to_help", "ask_property_type", "ask_area", "ask_purpose">>, <<>>)
    ELSE IF ctx.budget = NoneNum
    THEN Reply(<<"wonderful_choice", "ask_budget", "ask_purpose">>, <<>>)
    ELSE LET intro_reply == <<"lets_see_available">>
             c == get_perplexity_commentary(ctx.location, ctx.property_type, r1, r2)
             stats == get_price_range(table, ctx.location, ctx.property_type, ctx.bedrooms)
         IN IF c.raised THEN Crash(c.calls)
            ELSE IF Strip(c.text) = <<>>
            THEN Reply(Strip(intro_reply \o <<"NL", "NL", "no_exact_matches", "consider_adjusting", "SP">>
                             \o Hint(stats) \o <<"SP", "ask_preferences">>),
                       c.calls \o <<"get_price_range">>)
            ELSE Reply(Strip(intro_reply \o c.text), c.calls)

\* lines 230-246
MarketTrend(ctx, table, r1, r2) ==
    LET prop_type == IF TruthyStr(ctx.property_type) THEN ctx.property_type ELSE "apartment"
        stats == get_price_range(table, ctx.location, prop_type, ctx.bedrooms)
        base_trend == IF stats.found THEN <<"historical_range", "market_appeals">>
                      ELSE <<"market_varies", "ask_purpose">>
        c == get_perplexity_commentary(ctx.location, prop_type, r1, r2)
    IN IF c.raised THEN Crash(<<"get_price_range">> \o c.calls)
       ELSE Reply(Strip(base_trend \o c.text), <<"get_price_range">> \o c.calls)

\* lines 249-253
ScheduleViewing == Reply(<<"viewing_details", "ask_date_time_contact", "ask_for_whom">>, <<>>)

\* lines 256-290
Fallback(ctx, r1, r2) ==
    IF TruthyStr(ctx.location) /\ ~TruthyStr(ctx.property_type)
    THEN Reply(<<"glad_you_mentioned", "ask_property_type", "ask_purpose">>, <<>>)
    ELSE IF TruthyStr(ctx.property_type) /\ ~TruthyStr(ctx.location)
    THEN Reply(<<"interested_in_type", "ask_area", "ask_purpose">>, <<>>)
    ELSE IF TruthyStr(ctx.location) /\ TruthyStr(ctx.property_type)
    THEN LET c == get_perplexity_commentary(ctx.location, ctx.property_type, r1, r2)
         IN IF c.raised THEN Crash(c.calls)
            ELSE IF Strip(c.text) /= <<>>
            THEN Reply(<<"i_see_interested", "ask_purpose">> \o c.text, c.calls)
            ELSE Reply(<<"tell_me_more", "ask_purpose">>, c.calls)
    ELSE Reply(<<"hello_oliv", "ask_purpose", "ask_area">>, <<>>)

\* Dispatch with the greeting of lines 138-143 given whenever neither
\* location nor property type is known, whatever the intent
DispatchGreetsWithoutPlace(ctx, intent, table, mdl, po, r1, r2) ==
    IF ~TruthyStr(ctx.location) /\ ~TruthyStr(ctx.property_type)
    THEN Reply(<<"hello_oliv", "ask_purpose", "ask_area", "ask_property_type">>, <<>>)
    ELSE IF intent = "price_check" /\ TruthyStr(ctx.location) /\ TruthyStr(ctx.property_type)
    THEN PriceCheck(ctx, table, mdl, po, r1, r2)
    ELSE IF intent = "search_listings"
    THEN SearchListings(ctx, table, r1, r2)
    ELSE IF intent = "market_trend" /\ TruthyStr(ctx.location)
    THEN MarketTrend(ctx, table, r1, r2)
    ELSE IF intent = "schedule_viewing"
    THEN ScheduleViewing
    ELSE Fallback(ctx, r1, r2)

\* lines 137-290: the dispatch on the intent and the resolved context
Dispatch(ctx, intent, table, mdl, po, r1, r2) ==
    IF ~TruthyStr(ctx.location) /\ ~TruthyStr(ctx.property_type) /\ intent = None
    THEN Reply(<<"hello_oliv", "ask_purpose", "ask_area", "ask_property_type">>, <<>>)
    ELSE IF intent = "price_check" /\ TruthyStr(ctx.location) /\ TruthyStr(ctx.property_type)
    THEN PriceCheck(ctx, table, mdl, po, r1, r2)
    ELSE IF intent = "search_listings"
    THEN SearchListings(ctx, table, r1, r2)
    ELSE IF intent = "market_trend" /\ TruthyStr(ctx.location)
    THEN MarketTrend(ctx, table, r1, r2)
    ELSE IF intent = "schedule_viewing"
    THEN ScheduleViewing
    ELSE Fallback(ctx, r1, r2)

\* ContextAfterDispatch with a schedule_viewing branch that starts the
\* conversation afresh
ContextClearedOnViewing(ctx, intent) ==
    IF intent = "schedule_viewing" THEN EmptyContext ELSE ctx

\* lines 137-290: the branches read the locals of lines 127-131 and return a
\* text; none assigns to user_context
ContextAfterDispatch(ctx, intent) == ctx

Called(result, name) == \E i \in 1..Len(result.calls) : result.calls[i] = name

\* The outcomes to draw for a turn: those of the calls the turn makes.
HasPlace(ctx) == TruthyStr(ctx.location) /\ TruthyStr(ctx.property_type)

PredictChoices(ctx, intent, mdl) ==
    IF mdl /= None /\ intent = "price_check" /\ HasPlace(ctx)
    THEN PredictOutcomes ELSE {PredictNotCalled}

QueriesProvider(ctx, intent) ==
    \/ intent \in {None, "price_check"} /\ HasPlace(ctx)
    \/ intent = "search_listings" /\ HasPlace(ctx) /\ ctx.budget /= NoneNum
    \/ intent = "market_trend" /\ TruthyStr(ctx.location)

FirstChoices(ctx, intent) ==
    IF QueriesProvider(ctx, intent) THEN ProviderOutcomes ELSE {NotCalled}

SecondChoices(ctx, intent, r1) ==
    IF QueriesProvider(ctx, intent) /\ find_listings(r1) = <<>>
    THEN ProviderOutcomes ELSE {NotCalled}

NoParsed == [intent |-> None, location |-> Absent, property_type |-> Absent,
             bedrooms |-> AbsentNum, budget |-> AbsentNum]

NoTurn == [parsed |-> NoParsed, po |-> PredictNotCalled, r1 |-> NotCalled, r2 |-> NotCalled,
           raised |-> FALSE, reply |-> <<>>, calls |-> <<>>]

NoChat == [parsed |-> NoParsed, po |-> PredictNotCalled, llm |-> "not_called",
           raised |-> FALSE, reply |-> <<>>]

NoCall == [fn |-> "none", done |-> TRUE]

NoRequests == <<>>

Init ==
    /\ user_context = EmptyContext
    /\ price_stats \in {<<>>, SampleTable}
    /\ model \in {None, "loaded"}
    /\ pc = "idle"
    /\ turn = NoTurn
    /\ messages = 1
    /\ chat = NoChat
    /\ call = NoCall
    /\ req = NoRequests

\* POST /chat: handle_user_query runs to its return or to the exception
HandleUserQuery ==
    /\ pc = "idle"
    /\ \E parsed \in ParsedQueries :
         \E ctx \in {ResolveContext(user_context, parsed)}, intent \in {parsed.intent} :
           \E po \in PredictChoices(ctx, intent, model), r1 \in FirstChoices(ctx, intent) :
             \E r2 \in SecondChoices(ctx, intent, r1) :
               \E result \in {Dispatch(ctx, intent, price_stats, model, po, r1, r2)} :
                  /\ user_context' = ContextAfterDispatch(ctx, intent)
                  /\ turn' = [parsed |-> parsed, po |-> po, r1 |-> r1, r2 |-> r2,
                              raised |-> result.raised, reply |-> result.reply,
                              calls |-> result.calls]
                  /\ pc' = "replied"
    /\ UNCHANGED <<price_stats, model, messages, chat, call, req>>

\* chat_with_oliv hands {"reply": reply} (or the error) to the client
Respond ==
    /\ pc = "replied"
    /\ pc' = "idle"
    /\ turn' = NoTurn
    /\ UNCHANGED <<user_context, price_stats, model, messages, chat, call, req>>

Next == HandleUserQuery \/ Respond

Spec == Init /\ [][Next]_vars

\* The outcomes drawn for a turn are those of the calls the turn makes.
ChoicesMatchCalls ==
    pc = "replied" =>
        /\ (turn.r1 /= NotCalled) = Called(turn, "find_listings")
        /\ (turn.r2 /= NotCalled) = Called(turn, "find_general_commentary")
        /\ (turn.po /= PredictNotCalled) => Called(turn, "predict_price")
        /\ Called(turn, "predict_price") /\ model /= None => turn.po /= PredictNotCalled

\* ---- chat.py: the command-line loop -------------------------------------
\* The completion request of lines 81-87: it raises (no credential, network)
\* or it yields the assistant's text.
LlmOutcomes == {"raises", "text"}

\* dict.get(key)
GetOrNone(v) == IF v = Absent THEN None ELSE v
GetOrNoneNum(v) == IF v = AbsentNum THEN NoneNum ELSE v

\* lines 41-88: the reply of one iteration, or the exception that ends the loop.
\* With predicted None, budget > predicted and int(predicted) raise TypeError.
ChatReply(parsed, mdl, po, llm) ==
    LET location == GetOrNone(parsed.location)
        property_type == GetOrNone(parsed.property_type)
        budget == GetOrNoneNum(parsed.budget)
        predicted == predict_price(mdl, po)
    IN IF TruthyStr(location) /\ TruthyStr(property_type)
       THEN IF predicted = NoneNum THEN Raised
            ELSE IF TruthyNum(budget)
            THEN IF budget > predicted
                 THEN Returned(<<"estimated_price", "seems_higher">>)
                 ELSE Returned(<<"estimated_price", "fair_or_below">>)
            ELSE Returned(<<"estimated_market_price">>)
       ELSE IF llm = "raises" THEN Raised ELSE Returned(<<"llm_reply">>)

ChatPredictChoices(parsed, mdl) ==
    IF mdl /= None /\ TruthyStr(GetOrNone(parsed.location)) /\ TruthyStr(GetOrNone(parsed.property_type))
    THEN PredictOutcomes ELSE {PredictNotCalled}

ChatLlmChoices(parsed) ==
    IF TruthyStr(GetOrNone(parsed.location)) /\ TruthyStr(GetOrNone(parsed.property_type))
    THEN {"not_called"} ELSE LlmOutcomes

InitChat ==
    /\ user_context = EmptyContext
    /\ price_stats = <<>>
    /\ model \in {None, "loaded"}
    /\ pc = "prompt"
    /\ turn = NoTurn
    /\ messages = 1
    /\ chat = NoChat
    /\ call = NoCall
    /\ req = NoRequests

\* lines 29-88: a line is read, interpreted, appended to the history and answered
ChatTurn ==
    /\ pc = "prompt"
    /\ messages + 2 <= MaxMessages
    /\ \E parsed \in ParsedQueries :
         \E po \in ChatPredictChoices(parsed, model), llm \in ChatLlmChoices(parsed) :
            LET result == ChatReply(parsed, model, po, llm)
            IN /\ chat' = [parsed |-> parsed, po |-> po, llm |-> llm,
                           raised |-> result.raised, reply |-> result.text]
               /\ pc' = IF result.raised THEN "exited" ELSE "print"
    /\ messages' = messages + 1
    /\ UNCHANGED <<user_context, price_stats, model, turn, call, req>>

\* lines 90-94: the reply is printed and appended to the history
ChatPrint ==
    /\ pc = "print"
    /\ pc' = "prompt"
    /\ messages' = messages + 1
    /\ chat' = NoChat
    /\ UNCHANGED <<user_context, price_stats, model, turn, call, req>>

\* lines 30-32: 'quit' leaves the loop
ChatQuit ==
    /\ pc = "prompt"
    /\ pc' = "exited"
    /\ UNCHANGED <<user_context, price_stats, model, turn, messages, chat, call, req>>

NextChat == ChatTurn \/ ChatPrint \/ ChatQuit

SpecChat == InitChat /\ [][NextChat]_vars

\* ======================= properties ======================================
Replied == pc = "replied"
Says(text, token) == \E i \in 1..Len(text) : text[i] = token
Count(calls, name) == Cardinality({i \in 1..Len(calls) : calls[i] = name})
ExtractedStr(v) == v /= None /\ v /= Absent
ExtractedNum(n) == n /= NoneNum /\ n /= AbsentNum
\* the estimate the predictor gave in the turn
Predicted == predict_price(model, turn.po)
SearchTurn == Replied /\ turn.parsed.intent = "search_listings"
HasStats == get_price_range(price_stats, user_context.location, user_context.property_type,
                            user_context.bedrooms).found

\* C1: context stickiness over turns handled one at a time: a turn that
\* extracts a non-null value for a field leaves the context holding exactly
\* that value, a turn whose interpretation leaves a field absent does not
\* change a field that was set, and nothing but a turn writes the context.
C1_ContextSticky ==
    [][ /\ (pc = "idle" /\ pc' = "replied") =>
            /\ ExtractedStr(turn'.parsed.location) => user_context'.location = turn'.parsed.location
            /\ ExtractedStr(turn'.parsed.property_type) =>
                   user_context'.property_type = turn'.parsed.property_type
            /\ ExtractedNum(turn'.parsed.bedrooms) => user_context'.bedrooms = turn'.parsed.bedrooms
            /\ ExtractedNum(turn'.parsed.budget) => user_context'.budget = turn'.parsed.budget
            /\ ~ExtractedStr(turn'.parsed.location) /\ user_context.location /= None =>
                   user_context'.location = user_context.location
            /\ ~ExtractedStr(turn'.parsed.property_type) /\ user_context.property_type /= None =>
                   user_context'.property_type = user_context.property_type
            /\ ~ExtractedNum(turn'.parsed.bedrooms) /\ user_context.bedrooms /= NoneNum =>
                   user_context'.bedrooms = user_context.bedrooms
            /\ ~ExtractedNum(turn'.parsed.budget) /\ user_context.budget /= NoneNum =>
                   user_context'.budget = user_context.budget
        /\ pc = "replied" => user_context' = user_context ]_vars

\* a later turn supplied only a budget and the location of an earlier turn is still there
C1_Witness ==
    /\ Replied
    /\ turn.parsed.location = None /\ turn.parsed.property_type = None
    /\ turn.parsed.bedrooms = NoneNum /\ turn.parsed.budget = 2
    /\ user_context.location = "Marina" /\ user_context.property_type = "villa"
    /\ user_context.budget = 2

\* C2 (as claimed): on a search_listings turn whose resolved context has
\* location, property type and budget, a provider that returns zero entries or
\* fails gets the 'no exact matches, consider adjusting' reply, with the
\* historical range as a hint exactly when the price table has a matching row.
C2_NoMatchesReply ==
    SearchTurn /\ HasPlace(user_context) /\ user_context.budget /= NoneNum
               /\ find_listings(turn.r1) = <<>>
    => /\ ~turn.raised
       /\ Says(turn.reply, "no_exact_matches")
       /\ Says(turn.reply, "historical_range") = HasStats

\* C3: on a search_listings turn whose resolved context lacks location,
\* property type or budget the reply is a clarifying question and no provider
\* query is made; a provider query on a search_listings turn means all three
\* are present.
C3_ClarifyWithoutProviderCall ==
    SearchTurn =>
        /\ (user_context.location = None \/ user_context.property_type = None
              \/ user_context.budget = NoneNum)
           => /\ ~turn.raised
              /\ Says(turn.reply, "ask_property_type") \/ Says(turn.reply, "ask_budget")
              /\ ~Says(turn.reply, "lets_see_available")
              /\ ~Called(turn, "find_listings")
              /\ ~Called(turn, "find_general_commentary")
        /\ Called(turn, "find_listings") \/ Called(turn, "find_general_commentary")
           => /\ user_context.location /= None
              /\ user_context.property_type /= None
              /\ user_context.budget /= NoneNum

\* location and property type are known, the budget is not: the budget is asked for
C3_Witness ==
    /\ SearchTurn
    /\ user_context.location = "Marina" /\ user_context.property_type = "villa"
    /\ user_context.budget = NoneNum
    /\ Says(turn.reply, "ask_budget")
    /\ turn.calls = <<>>

\* C4 (as claimed): no reply asks for a field (area, property type, budget)
\* that is non-null in the resolved context of the turn.
C4_NeverReasks ==
    Replied /\ ~turn.raised =>
        /\ user_context.location /= None => ~Says(turn.reply, "ask_area")
        /\ user_context.property_type /= None => ~Says(turn.reply, "ask_property_type")
        /\ user_context.budget /= NoneNum => ~Says(turn.reply, "ask_budget")

\* C5 (as claimed): every turn, whatever the interpretation, the context and
\* the collaborators' outcomes, returns a non-empty text and does not raise.
C5_AlwaysReplies == Replied => ~turn.raised /\ turn.reply /= <<>>

\* C6 (as claimed): on a price-check turn with a budget B and a numeric
\* estimate E the reply says 'above' iff B > E and 'fits' iff B <= E, for every
\* budget value given.
C6_BudgetClassified ==
    /\ Replied /\ ~turn.raised
    /\ turn.parsed.intent = "price_check" /\ HasPlace(user_context)
    /\ user_context.budget /= NoneNum /\ Predicted /= NoneNum
    => /\ Says(turn.reply, "budget_above") = (user_context.budget > Predicted)
       /\ Says(turn.reply, "budget_fits") = (user_context.budget <= Predicted)

\* C7 (as claimed): with location and property type present and no estimate
\* from the predictor, the turn is answered, and not by an estimate; it does
\* not crash, with or without a budget.
C7_PredictorAbsentNoCrash ==
    /\ pc \in {"print", "exited"} /\ chat /= NoChat
    /\ chat.parsed.intent = "price_check"
    /\ TruthyStr(GetOrNone(chat.parsed.location))
    /\ TruthyStr(GetOrNone(chat.parsed.property_type))
    /\ predict_price(model, chat.po) = NoneNum
    => /\ ~chat.raised
       /\ chat.reply /= <<>>
       /\ ~Says(chat.reply, "estimated_price") /\ ~Says(chat.reply, "estimated_market_price")

\* C8: a schedule_viewing turn returns the one fixed reply, whatever the
\* context and the other extracted fields, and calls no collaborator.
C8_ScheduleViewingFixed ==
    Replied /\ turn.parsed.intent = "schedule_viewing" =>
        /\ ~turn.raised
        /\ turn.reply = <<"viewing_details", "ask_date_time_contact", "ask_for_whom">>
        /\ turn.calls = <<>>

\* a viewing is asked for in a turn that also extracts fields, on a context that has some
C8_Witness ==
    /\ Replied /\ turn.parsed.intent = "schedule_viewing"
    /\ turn.parsed.budget = 1 /\ user_context.location = "Marina"
    /\ turn.reply /= <<>>

AllPopulated ==
    /\ user_context.location /= None /\ user_context.property_type /= None
    /\ user_context.bedrooms /= NoneNum /\ user_context.budget /= NoneNum

ProviderQueries(calls) == Count(calls, "find_listings") + Count(calls, "find_general_commentary")

\* C9 (as claimed): a search_listings turn with all four fields populated
\* queries the provider exactly once, whatever it returns.
C9_OneProviderQuery ==
    SearchTurn /\ AllPopulated => ProviderQueries(turn.calls) = 1

\* C9 (amended): such a turn makes the listing query exactly once, and exactly
\* one further query, for general commentary, when the listing query yielded
\* no entry (none when it yielded entries); no query is repeated.
C9_ListingQueryThenOneFallback ==
    SearchTurn /\ AllPopulated =>
        /\ Count(turn.calls, "find_listings") = 1
        /\ Count(turn.calls, "find_general_commentary")
             = (IF find_listings(turn.r1) = <<>> THEN 1 ELSE 0)
        /\ turn.calls[1] = "find_listings"

\* the listing query came back empty and the commentary query was made after it
C9_Witness ==
    /\ SearchTurn /\ AllPopulated
    /\ turn.r1.status = "ok" /\ turn.r1.content = EmptyArray
    /\ turn.r2.status = "ok"
    /\ Count(turn.calls, "find_general_commentary") = 1

\* C10 (as claimed): find_general_commentary returns a non-empty text and
\* never raises, whatever the provider sends back.
C10_CommentaryNeverRaises ==
    Replied /\ Called(turn, "find_general_commentary") =>
        /\ ~find_general_commentary(turn.r2).raised
        /\ find_general_commentary(turn.r2).text /= <<>>

\* ---- functions taken alone ----------------------------------------------
\* A call is drawn with its arguments, then the function is applied to them.
PendingCall(fn, arg) == [fn |-> fn, arg |-> arg, done |-> FALSE]

\* every message content the answer service can send, fenced or not
ParseContents ==
    {Content(f, k, <<>>) : f \in BOOLEAN, k \in {"invalid", "other"}}
    \cup {Content(f, "array", es) : f \in BOOLEAN, es \in SeqsUpTo(Elems, MaxListings + 1)}

ParseCalls == {PendingCall("parse_listings", c) : c \in ParseContents}

\* perplexity_search.py 64-75
ParseListings ==
    /\ call.fn = "parse_listings" /\ ~call.done
    /\ call' = [fn |-> "parse_listings", arg |-> call.arg, done |-> TRUE,
                raised |-> FALSE, result |-> parse_listings(call.arg)]
    /\ UNCHANGED <<user_context, price_stats, model, pc, turn, messages, chat, req>>

\* main.py 28-51, on the table of start-up
PriceAreas == {"Marina", "JVC", "Downtown"}
PriceTypes == {"apartment", "villa"}

PriceCalls ==
    {PendingCall("get_price_range", [area |-> a, prop_type |-> t, bedrooms |-> b]) :
        a \in PriceAreas, t \in PriceTypes, b \in {NoneNum} \cup 0..(MaxBedrooms + 1)}

GetPriceRange ==
    /\ call.fn = "get_price_range" /\ ~call.done
    /\ call' = [fn |-> "get_price_range", arg |-> call.arg, done |-> TRUE,
                raised |-> FALSE,
                label |-> IF price_stats = <<>> THEN "" ELSE bedrooms_label(call.arg.bedrooms),
                result |-> get_price_range(price_stats, call.arg.area, call.arg.prop_type,
                                           call.arg.bedrooms)]
    /\ UNCHANGED <<user_context, price_stats, model, pc, turn, messages, chat, req>>

\* ---- nlu_integration.py: interpret_user_query ---------------------------
SentinelFields ==
    [intent |-> None, location |-> None, property_type |-> None,
     bedrooms |-> NoneNum, budget |-> NoneNum, timeframe |-> None]

\* lines 17-24 and 53-60
Sentinel == [json |-> "object", fields |-> SentinelFields]

WithTimeframe(p, t) ==
    [intent |-> p.intent, location |-> p.location, property_type |-> p.property_type,
     bedrooms |-> p.bedrooms, budget |-> p.budget, timeframe |-> t]

\* The completion request of lines 39-47: it raises (network, service error,
\* reply without choices), or its content is not JSON, JSON that is no
\* object, or a JSON object.
LlmReplies ==
    {[status |-> st, json |-> "invalid", fields |-> SentinelFields] : st \in {"error", "ok"}}
    \cup {[status |-> "ok", json |-> "other", fields |-> SentinelFields]}
    \cup {[status |-> "ok", json |-> "object", fields |-> WithTimeframe(p, t)] :
            p \in FullQueries, t \in {None, "next month"}}

\* interpret_user_query catching json.JSONDecodeError only
InterpretCatchingJsonErrorsOnly(key, outcome) ==
    IF ~key THEN [raised |-> FALSE, attempts |-> 0, data |-> Sentinel]
    ELSE IF outcome.status = "error" THEN [raised |-> TRUE, attempts |-> 1, data |-> Sentinel]
    ELSE IF outcome.json = "invalid" THEN [raised |-> FALSE, attempts |-> 1, data |-> Sentinel]
    ELSE [raised |-> FALSE, attempts |-> 1,
          data |-> [json |-> outcome.json, fields |-> outcome.fields]]

\* lines 10-60; key: OPENAI_API_KEY is set
interpret_user_query(key, outcome) ==
    IF ~key THEN [raised |-> FALSE, attempts |-> 0, data |-> Sentinel]
    ELSE IF outcome.status = "error" \/ outcome.json = "invalid"
    THEN [raised |-> FALSE, attempts |-> 1, data |-> Sentinel]
    ELSE [raised |-> FALSE, attempts |-> 1,
          data |-> [json |-> outcome.json, fields |-> outcome.fields]]

InterpretCalls ==
    {PendingCall("interpret_user_query", [key |-> k, outcome |-> o]) :
        k \in BOOLEAN, o \in LlmReplies}

InterpretUserQuery ==
    /\ call.fn = "interpret_user_query" /\ ~call.done
    /\ \E r \in {interpret_user_query(call.arg.key, call.arg.outcome)} :
         call' = [fn |-> "interpret_user_query", arg |-> call.arg, done |-> TRUE,
                  raised |-> r.raised, attempts |-> r.attempts, result |-> r.data]
    /\ UNCHANGED <<user_context, price_stats, model, pc, turn, messages, chat, req>>

InitCalls ==
    /\ user_context = EmptyContext
    /\ price_stats \in {<<>>, SampleTable}
    /\ model = None
    /\ pc = "idle"
    /\ turn = NoTurn
    /\ messages = 1
    /\ chat = NoChat
    /\ call \in ParseCalls \cup PriceCalls \cup InterpretCalls
    /\ req = NoRequests

NextCalls == ParseListings \/ GetPriceRange \/ InterpretUserQuery

SpecCalls == InitCalls /\ [][NextCalls]_vars

\* ---- properties of the functions taken alone ----------------------------
Done(fn) == call.fn = fn /\ call.done

\* C11: parse_listings on a valid JSON array wrapped in ```json fences yields
\* the list it yields on the unwrapped array, which is the array itself; on
\* content that is not JSON or is JSON but no array it yields the empty list;
\* it never raises.
C11_ParseListingsRobust ==
    Done("parse_listings") =>
        /\ ~call.raised
        /\ call.arg.kind = "array" =>
              /\ call.result = call.arg.elems
              /\ call.result = parse_listings(Content(FALSE, "array", call.arg.elems))
        /\ call.arg.kind /= "array" => call.result = <<>>

\* a fenced array of two elements was parsed to those two elements
C11_Witness ==
    /\ Done("parse_listings")
    /\ call.arg.fenced /\ call.arg.kind = "array"
    /\ call.result = <<"obj", "str">>

\* C13: interpret_user_query never raises; with the credential missing, on a
\* failed request and on a reply that is not JSON it returns the sentinel with
\* intent, location, property_type, bedrooms, budget and timeframe all None;
\* the completion service is asked at most once, and not at all when the
\* credential is missing.
C13_InterpretNeverRaises ==
    Done("interpret_user_query") =>
        /\ ~call.raised
        /\ call.attempts <= 1
        /\ ~call.arg.key => call.attempts = 0 /\ call.result = Sentinel
        /\ call.arg.key /\ (call.arg.outcome.status = "error" \/ call.arg.outcome.json = "invalid")
           => /\ call.result.json = "object"
              /\ call.result.fields.intent = None
              /\ call.result.fields.location = None
              /\ call.result.fields.property_type = None
              /\ call.result.fields.bedrooms = NoneNum
              /\ call.result.fields.budget = NoneNum
              /\ call.result.fields.timeframe = None

\* the credential is set and the request failed: the sentinel came back after one attempt
C13_Witness ==
    /\ Done("interpret_user_query")
    /\ call.arg.key /\ call.arg.outcome.status = "error"
    /\ call.attempts = 1
    /\ call.result = Sentinel

ExpectedLabel(b) == IF b = NoneNum \/ b = 0 THEN "Studio" ELSE ToString(b) \o " B/R"

MatchingRows(table, area, prop_type, label) ==
    {i \in 1..Len(table) : /\ table[i].AREA_EN = area
                            /\ table[i].PROP_TYPE_EN = prop_type
                            /\ table[i].ROOMS_EN = label}

\* C14: get_price_range looks up (area, property type, label), the label being
\* "Studio" for bedrooms None or 0 and "<b> B/R" otherwise; the match is exact
\* and the result is absent, with no error, when no row matches or the table
\* is empty.
C14_LabelAndExactLookup ==
    Done("get_price_range") =>
        LET rows == MatchingRows(price_stats, call.arg.area, call.arg.prop_type,
                                 ExpectedLabel(call.arg.bedrooms))
        IN /\ ~call.raised
           /\ price_stats /= <<>> => call.label = ExpectedLabel(call.arg.bedrooms)
           /\ call.result.found = (rows /= {})
           /\ call.result.found =>
                 \E i \in rows : /\ \A j \in rows : i <= j
                                 /\ call.result.min_price = price_stats[i].MIN_PRICE
                                 /\ call.result.max_price = price_stats[i].MAX_PRICE
                                 /\ call.result.median_price = price_stats[i].MEDIAN_PRICE

\* a studio asked for as 0 bedrooms found the Studio row
C14_Witness ==
    /\ Done("get_price_range")
    /\ call.arg.bedrooms = 0 /\ call.arg.area = "Marina" /\ call.arg.prop_type = "apartment"
    /\ call.label = "Studio"
    /\ call.result.found

\* a key without a row on a table that has rows: the result is absent
C14_WitnessNoRow ==
    /\ Done("get_price_range")
    /\ price_stats /= <<>> /\ call.arg.area = "Downtown"
    /\ ~call.result.found

\* ---- the context over a turn --------------------------------------------
TurnStep == pc = "idle" /\ pc' = "replied"

Known(ctx) == TruthyStr(ctx.location) /\ ctx.bedrooms /= NoneNum

C12_WitnessNotYet ==
    /\ Replied
    /\ turn.parsed.location = "Marina"
    /\ user_context.bedrooms = NoneNum /\ user_context.property_type = None

AllAbsent(parsed) ==
    /\ ~ExtractedStr(parsed.location) /\ ~ExtractedStr(parsed.property_type)
    /\ ~ExtractedNum(parsed.bedrooms) /\ ~ExtractedNum(parsed.budget)

\* C16: over turns handled one at a time, a turn whose interpretation has
\* location, property_type, bedrooms and budget all absent leaves the four
\* context fields as they were whatever its intent, and after any turn the
\* context is what the merge and the apartment default made of it: the
\* dispatch branch taken adds no write.
C16_FrameCondition ==
    [][ TurnStep =>
          /\ AllAbsent(turn'.parsed) => user_context' = user_context
          /\ user_context' = DefaultPropertyType(MergeContext(user_context, turn'.parsed))
      ]_vars

\* a schedule_viewing turn extracting nothing ran on a context holding a
\* location and a budget, and the context still holds them
C16_Witness ==
    /\ Replied
    /\ AllAbsent(turn.parsed) /\ turn.parsed.intent = "schedule_viewing"
    /\ user_context.location = "Marina" /\ user_context.budget = 2

\* ---- main.py: requests served concurrently -------------------------------
\* chat_with_oliv is a plain def, so the server runs each request on a thread
\* of its pool; handle_user_query takes no lock and the threads can be
\* switched between any two accesses to the module-level user_context.
Requests == {"a", "b"}

StrFields == {"location", "property_type"}

IsNoneField(f, v) == IF f \in StrFields THEN v = None ELSE v = NoneNum

\* parsed.get(f, default)
GetField(parsed, f, default) ==
    IF f \in StrFields THEN GetStr(parsed[f], default) ELSE GetNum(parsed[f], default)

\* the field a line of handle_user_query reads or writes
FieldAt(line) ==
    CASE line \in {"102", "113", "128"} -> "location"
      [] line \in {"103", "115", "129"} -> "property_type"
      [] line \in {"104", "117", "130"} -> "bedrooms"
      [] line \in {"105", "119", "131"} -> "budget"

\* the access that follows, in program order
NextLine(line) ==
    CASE line = "102" -> "103" [] line = "103" -> "104" [] line = "104" -> "105"
      [] line = "105" -> "113" [] line = "113" -> "115" [] line = "115" -> "117"
      [] line = "117" -> "119" [] line = "119" -> "123.property_type"
      [] line = "128" -> "129" [] line = "129" -> "130" [] line = "130" -> "131"
      [] line = "131" -> "137"

\* the messages the two clients send: searches that give no budget
ConcQueries ==
    {p \in ParsedQueries : p.intent = "search_listings" /\ ~ExtractedNum(p.budget)}

NewRequest == [pc |-> "100", parsed |-> NoParsed, local |-> EmptyContext,
               raised |-> FALSE, reply |-> <<>>]

At(r, lines) == req[r].pc \in lines

\* lines 100-101: the interpretation of the message comes back
Interpret ==
    \E r \in Requests :
       /\ At(r, {"100"})
       /\ \E parsed \in ConcQueries :
             req' = [req EXCEPT ![r].pc = "102", ![r].parsed = parsed]
       /\ UNCHANGED <<user_context, price_stats, model, pc, turn, messages, chat, call>>

\* lines 102-105, one line a step: the context's value is the default
ReadDefault ==
    \E r \in Requests :
       /\ At(r, {"102", "103", "104", "105"})
       /\ \E f \in {FieldAt(req[r].pc)} :
             req' = [req EXCEPT ![r].pc = NextLine(req[r].pc),
                                ![r].local[f] = GetField(req[r].parsed, f, user_context[f])]
       /\ UNCHANGED <<user_context, price_stats, model, pc, turn, messages, chat, call>>

\* lines 113-120, one if a step
MergeWrite ==
    \E r \in Requests :
       /\ At(r, {"113", "115", "117", "119"})
       /\ \E f \in {FieldAt(req[r].pc)} :
             user_context' = IF IsNoneField(f, req[r].local[f]) THEN user_context
                             ELSE [user_context EXCEPT ![f] = req[r].local[f]]
       /\ req' = [req EXCEPT ![r].pc = NextLine(req[r].pc)]
       /\ UNCHANGED <<price_stats, model, pc, turn, messages, chat, call>>

\* line 123: the three operands of the condition, read one after the other
DefaultCheck ==
    \E r \in Requests :
       /\ At(r, {"123.property_type", "123.location", "123.bedrooms"})
       /\ req' = [req EXCEPT ![r].pc =
                    CASE req[r].pc = "123.property_type" ->
                            IF user_context.property_type = None THEN "123.location" ELSE "128"
                      [] req[r].pc = "123.location" ->
                            IF TruthyStr(user_context.location) THEN "123.bedrooms" ELSE "128"
                      [] req[r].pc = "123.bedrooms" ->
                            IF user_context.bedrooms /= NoneNum THEN "124" ELSE "128"]
       /\ UNCHANGED <<user_context, price_stats, model, pc, turn, messages, chat, call>>

\* lines 124-125
DefaultWrite ==
    \E r \in Requests :
       /\ At(r, {"124"})
       /\ user_context' = [user_context EXCEPT !.property_type = "apartment"]
       /\ req' = [req EXCEPT ![r].pc = "128", ![r].local.property_type = "apartment"]
       /\ UNCHANGED <<price_stats, model, pc, turn, messages, chat, call>>

\* Reread keeping the value the request extracted itself
RereadOwnValue(ctx, local, f) ==
    IF IsNoneField(f, local[f]) THEN ctx[f] ELSE local[f]

\* lines 128-131: the local is assigned the context's value
Reread(ctx, local, f) == ctx[f]

ReRead ==
    \E r \in Requests :
       /\ At(r, {"128", "129", "130", "131"})
       /\ \E f \in {FieldAt(req[r].pc)} :
             req' = [req EXCEPT ![r].pc = NextLine(req[r].pc),
                                ![r].local[f] = Reread(user_context, req[r].local, f)]
       /\ UNCHANGED <<user_context, price_stats, model, pc, turn, messages, chat, call>>

\* lines 137-290 on the locals, to the return or the exception
DispatchRequest ==
    \E r \in Requests :
       /\ At(r, {"137"})
       /\ \E ctx \in {req[r].local}, intent \in {req[r].parsed.intent} :
            \E po \in PredictChoices(ctx, intent, model), r1 \in FirstChoices(ctx, intent) :
              \E r2 \in SecondChoices(ctx, intent, r1) :
                \E result \in {Dispatch(ctx, intent, price_stats, model, po, r1, r2)} :
                   req' = [req EXCEPT ![r].pc = "done", ![r].raised = result.raised,
                                      ![r].reply = result.reply]
       /\ UNCHANGED <<user_context, price_stats, model, pc, turn, messages, chat, call>>

InitConc ==
    /\ user_context = EmptyContext
    /\ price_stats = SampleTable
    /\ model = None
    /\ pc = "idle"
    /\ turn = NoTurn
    /\ messages = 1
    /\ chat = NoChat
    /\ call = NoCall
    /\ req = [r \in Requests |-> NewRequest]

NextConc ==
    \/ Interpret
    \/ ReadDefault
    \/ MergeWrite
    \/ DefaultCheck
    \/ DefaultWrite
    \/ ReRead
    \/ DispatchRequest

SpecConc == InitConc /\ [][NextConc]_vars

\* ---- properties of concurrent requests -----------------------------------
Serving == DOMAIN req = Requests

\* C15: there is one context for all requests and no lock: each re-read of
\* lines 128-131 gives a request the value the shared context holds at that
\* moment, whatever the request extracted and wrote itself, and a request is
\* answered on the values so read.
C15_SharedContext ==
    [][ Serving =>
          \A r \in Requests :
             /\ req[r].pc \in {"128", "129", "130", "131"} /\ req'[r].pc /= req[r].pc =>
                   req'[r].local[FieldAt(req[r].pc)] = user_context[FieldAt(req[r].pc)]
             /\ req[r].pc = "137" /\ req'[r].pc = "done" =>
                   /\ req'[r].local = req[r].local
                   /\ req'[r].reply =
                         SearchListings(req[r].local, price_stats, NotCalled, NotCalled).reply
      ]_vars

\* a request extracted a bedroom count, wrote it, and was answered on the
\* other count, which the other request wrote before the re-read
C15_Witness ==
    /\ Serving
    /\ \E r \in Requests :
          /\ req[r].pc = "done"
          /\ ExtractedNum(req[r].parsed.bedrooms)
          /\ req[r].local.bedrooms /= req[r].parsed.bedrooms

\* a request that gave no location was answered on the location the other
\* request gave
C15_WitnessOtherUsersField ==
    /\ Serving
    /\ \E r \in Requests, o \in Requests :
          /\ req[r].pc = "done" /\ o /= r
          /\ ~ExtractedStr(req[r].parsed.location)
          /\ ExtractedStr(req[o].parsed.location)
          /\ req[r].local.location = req[o].parsed.location

\* a request that asked for a villa was answered on an apartment, the default
\* the other request wrote over it
C15_WitnessDefaultOverSupplied ==
    /\ Serving
    /\ \E r \in Requests :
          /\ req[r].pc = "done"
          /\ req[r].parsed.property_type = "villa"
          /\ req[r].local.property_type = "apartment"

====
